---------------------------- MODULE Spec2Model ----------------------------
(***************************************************************************)
(* Liquity liquidation bot (src/liquity_liquidation_bot.py): the monitor   *)
(* loop of main(), get_trove_details(), get_eth_price() and                *)
(* liquidate_trove(), together with the chain node and the price provider  *)
(* they talk to.                                                           *)
(***************************************************************************)
EXTENDS Integers, Sequences, FiniteSets, TLC

(***************************************************************************)
(* Python ints are unbounded and Python floats are IEEE-754 binary64.      *)
(* Naturals are kept as little-endian sequences of limbs (<<>> is zero,    *)
(* the top limb is never 0), so that 18-decimal wei amounts and 53-bit     *)
(* significands are computed exactly.                                      *)
(***************************************************************************)
LimbBits == 15

LimbBase == 2^LimbBits

RECURSIVE Norm(_)
Norm(a) ==
    IF a = <<>> THEN a
    ELSE IF a[Len(a)] = 0 THEN Norm(SubSeq(a, 1, Len(a) - 1)) ELSE a

RECURSIVE AddC(_, _, _)
AddC(a, b, c) ==
    IF a = <<>> /\ b = <<>> THEN (IF c = 0 THEN <<>> ELSE <<c>>)
    ELSE LET x == IF a = <<>> THEN 0 ELSE Head(a)
             y == IF b = <<>> THEN 0 ELSE Head(b)
             s == x + y + c
         IN  <<s % LimbBase>> \o AddC(IF a = <<>> THEN a ELSE Tail(a),
                                      IF b = <<>> THEN b ELSE Tail(b),
                                      s \div LimbBase)

Add(a, b) == AddC(a, b, 0)

RECURSIVE SubB(_, _, _)
SubB(a, b, c) ==
    IF a = <<>> THEN <<>>
    ELSE LET y == IF b = <<>> THEN 0 ELSE Head(b)
             d == Head(a) - y - c
         IN  <<IF d < 0 THEN d + LimbBase ELSE d>>
                 \o SubB(Tail(a), IF b = <<>> THEN b ELSE Tail(b),
                         IF d < 0 THEN 1 ELSE 0)

\* a - b for a >= b
Sub(a, b) == Norm(SubB(a, b, 0))

RECURSIVE CmpAt(_, _, _)
CmpAt(a, b, i) ==
    IF i = 0 THEN 0
    ELSE IF a[i] < b[i] THEN -1
    ELSE IF a[i] > b[i] THEN 1
    ELSE CmpAt(a, b, i - 1)

\* -1, 0, 1 as a < b, a = b, a > b
Cmp(a, b) ==
    IF Len(a) < Len(b) THEN -1
    ELSE IF Len(a) > Len(b) THEN 1
    ELSE CmpAt(a, b, Len(a))

RECURSIVE MulSmallC(_, _, _)
MulSmallC(a, s, c) ==
    IF a = <<>> THEN (IF c = 0 THEN <<>> ELSE <<c>>)
    ELSE LET p == Head(a) * s + c
         IN  <<p % LimbBase>> \o MulSmallC(Tail(a), s, p \div LimbBase)

\* a * s + c for 0 <= s, c < LimbBase
MulSmall(a, s, c) == Norm(MulSmallC(a, s, c))

RECURSIVE Mul(_, _)
Mul(a, b) ==
    IF a = <<>> \/ b = <<>> THEN <<>>
    ELSE LET rest == Mul(a, Tail(b))
         IN  Add(MulSmall(a, Head(b), 0),
                 IF rest = <<>> THEN rest ELSE <<0>> \o rest)

\* a * 2^k
Shl(a, k) ==
    IF a = <<>> THEN a
    ELSE [i \in 1..(k \div LimbBits) |-> 0] \o MulSmall(a, 2^(k % LimbBits), 0)

RECURSIVE SmallBitLen(_)
SmallBitLen(n) == IF n = 0 THEN 0 ELSE 1 + SmallBitLen(n \div 2)

BitLen(a) ==
    IF a = <<>> THEN 0
    ELSE LimbBits * (Len(a) - 1) + SmallBitLen(a[Len(a)])

\* bit i of a, bit 0 the least significant
Bit(a, i) == (a[(i \div LimbBits) + 1] \div 2^(i % LimbBits)) % 2

RECURSIVE DigitIn(_, _, _, _)
\* the largest d in lo..hi with q * d <= r, given q * lo <= r
DigitIn(r, q, lo, hi) ==
    IF lo >= hi THEN lo
    ELSE LET mid == (lo + hi + 1) \div 2
         IN  IF Cmp(MulSmall(q, mid, 0), r) <= 0
             THEN DigitIn(r, q, mid, hi)
             ELSE DigitIn(r, q, lo, mid - 1)

\* r div q for r < q * LimbBase: the quotient of the leading limbs brackets it
Digit(r, q) ==
    IF Len(r) < Len(q) THEN 0
    ELSE LET n  == Len(q)
             rt == IF Len(r) > n THEN r[n + 1] * LimbBase + r[n] ELSE r[n]
             hi == rt \div q[n]
         IN  DigitIn(r, q, rt \div (q[n] + 1),
                     IF hi > LimbBase - 1 THEN LimbBase - 1 ELSE hi)

RECURSIVE DivModFrom(_, _, _, _, _)
\* long division, one limb of p at a time from the top limb down to limb 1
DivModFrom(p, q, i, quo, rem) ==
    IF i = 0 THEN <<Norm(quo), rem>>
    ELSE LET r2 == Norm(<<p[i]>> \o rem)
             d  == Digit(r2, q)
         IN  DivModFrom(p, q, i - 1, <<d>> \o quo, Sub(r2, MulSmall(q, d, 0)))

\* <<p div q, p mod q>> for q > 0
DivMod(p, q) == DivModFrom(p, q, Len(p), <<>>, <<>>)

One == <<1>>

RECURSIVE NatOfGroups(_, _)
NatOfGroups(g, acc) ==
    IF g = <<>> THEN acc
    ELSE NatOfGroups(Tail(g), MulSmall(acc, 1000, Head(g)))

\* the natural written in decimal as groups of three digits, e.g.
\* Big(<<1, 100, 0>>) is 1100000
Big(g) == NatOfGroups(g, <<>>)

(***************************************************************************)
(* Python float: a binary64 value m * 2^e with 2^52 <= m < 2^53, or zero.  *)
(* Every float operation returns the exact result rounded to the nearest   *)
(* representable value, ties to even (IEEE-754).  The amounts handled here *)
(* are far from the subnormal and overflow ranges.                         *)
(***************************************************************************)
Precision == 53

FZero == [m |-> <<>>, e |-> 0]

\* the float nearest to p / q, for q > 0
RoundRat(p, q) ==
    IF p = <<>> THEN FZero
    ELSE LET e0 == BitLen(p) - BitLen(q) - Precision
             P0 == IF e0 < 0 THEN Shl(p, -e0) ELSE p
             Q0 == IF e0 < 0 THEN q ELSE Shl(q, e0)
             big == Cmp(P0, Shl(Q0, Precision)) >= 0
             e1 == IF big THEN e0 + 1 ELSE e0
             \* p / (q * 2^e1) = P1 / Q1, scaled so that the top limb of Q1
             \* has its top bit set, which keeps the digit brackets narrow
             s  == LimbBits - SmallBitLen(q[Len(q)])
             P1 == IF e1 < 0 THEN Shl(p, s - e1) ELSE Shl(p, s)
             Q1 == IF e1 < 0 THEN Shl(q, s) ELSE Shl(q, s + e1)
             qr == DivMod(P1, Q1)
             c  == Cmp(Add(qr[2], qr[2]), Q1)
             up == c > 0 \/ (c = 0 /\ qr[1][1] % 2 = 1)
             m1 == IF up THEN AddC(qr[1], <<>>, 1) ELSE qr[1]
         IN  IF BitLen(m1) > Precision
             THEN [m |-> Shl(One, Precision - 1), e |-> e1 + 1]
             ELSE [m |-> m1, e |-> e1]

\* float(n) for a Python int n
FloatOfInt(n) == RoundRat(n, One)

\* x * 2^k
Scale(x, k) == IF x.m = <<>> THEN x ELSE [m |-> x.m, e |-> x.e + k]

\* x / y for y # 0
FDiv(x, y) == Scale(RoundRat(x.m, y.m), x.e - y.e)

FMul(x, y) == Scale(RoundRat(Mul(x.m, y.m), One), x.e + y.e)

\* x < y for x, y >= 0
FLt(x, y) ==
    LET d == x.e - y.e
    IN  IF d >= 0 THEN Cmp(Shl(x.m, d), y.m) < 0 ELSE Cmp(x.m, Shl(y.m, -d)) < 0

FIsZero(x) == x.m = <<>>

(***************************************************************************)
(* Values the chain node and the price provider may return.                *)
(***************************************************************************)
\* the loop polls while send_raw_transaction was called fewer than MaxSent
\* times; the number of poll cycles is not bounded
MaxSent == 2

\* the blocks counted between the two reads of one evaluation; the request
\* of get_eth_price has no timeout, so the code sets no limit to them
MaxBlocksApart == 2

Addresses == {"T1", "T2"}

\* Troves(address): trove[0] is the debt and trove[1] the collateral, in wei
NoTroveData == [debt |-> <<>>, coll |-> <<>>]

\* no trove at the address; 1 ETH and no debt; 1.7 ETH against a debt of 3000
TroveData ==
    { NoTroveData,
      [debt |-> <<>>,                            coll |-> Big(<<1, 0, 0, 0, 0, 0, 0>>)],
      [debt |-> Big(<<3, 0, 0, 0, 0, 0, 0, 0>>), coll |-> Big(<<1, 700, 0, 0, 0, 0, 0>>)] }

\* the troves of the health evaluation: the above, 2 ETH and 1.5 ETH against
\* 3000, 1.65 ETH against 3000 less and not less one wei, 0.352836 ETH against
\* 641.52, and a debt and a collateral of one wei
HealthTroveData ==
    TroveData \cup
    { [debt |-> Big(<<3, 0, 0, 0, 0, 0, 0, 0>>), coll |-> Big(<<2, 0, 0, 0, 0, 0, 0>>)],
      [debt |-> Big(<<3, 0, 0, 0, 0, 0, 0, 0>>), coll |-> Big(<<1, 500, 0, 0, 0, 0, 0>>)],
      [debt |-> Big(<<3, 0, 0, 0, 0, 0, 0, 0>>), coll |-> Big(<<1, 650, 0, 0, 0, 0, 0>>)],
      [debt |-> Big(<<3, 0, 0, 0, 0, 0, 0, 0>>),
       coll |-> Big(<<1, 649, 999, 999, 999, 999, 999>>)],
      [debt |-> Big(<<641, 520, 0, 0, 0, 0, 0>>), coll |-> Big(<<352, 836, 0, 0, 0, 0>>)],
      [debt |-> Big(<<1>>),                      coll |-> Big(<<1>>)] }

\* data["ethereum"]["usd"] in hundredths: a whole value is a JSON integer
\* (a Python int), any other a JSON real (a Python float)
Prices == {190000, 200000}

HealthPrices == Prices \cup {100, 190052}

GasPrices == {20, 22}

\* exceptions the calls of one poll cycle raise; all derive from Exception
ChainErrors == {"ConnectionError", "BadFunctionCallOutput"}

PriceErrors == {"ConnectionError", "JSONDecodeError", "KeyError"}

ExceptionClasses ==
    ChainErrors \cup PriceErrors
        \cup {"TimeExhausted", "ValueError", "ZeroDivisionError"}

NoTrove ==
    [address |-> "None", collateral |-> FZero, debt |-> FZero,
     collateral_ratio |-> FZero]

NoTxn == [addrs |-> <<>>, nonce |-> 0, gasPrice |-> 0]

NoFloat == FZero

\* nothing was read, computed or sent in the cycle yet; the cycle ends with
\* one of the two sleeps
NothingSeen ==
    [head |-> FALSE, trove |-> FALSE, price |-> FALSE, zeroDebt |-> FALSE,
     priceFailed |-> FALSE, basisTrove |-> FALSE, basisPrice |-> FALSE,
     rawTrove |-> NoTroveData, rawPrice |-> 0, sends |-> 0,
     blocksApart |-> 0]

VARIABLES
    pc,                 \* the statement main() is at
    first_trove,        \* main: head of the sorted list
    lowest_cr_trove,    \* main: result of get_trove_details
    tx_hash,            \* main: index into sent of the transaction awaited
    address,            \* parameter of get_trove_details / liquidate_trove
    coll, debt, price,  \* get_trove_details locals
    nonce, txn,         \* liquidate_trove locals
    exc,                \* the exception raised, "None" when there is none
    lastLog,            \* the last line logged
    sent,               \* transactions handed to send_raw_transaction, with
                        \* what became of each: Lost, Refused, Pending,
                        \* Success, Reverted, Dropped
    seen                \* what the current poll cycle has read and done:
                        \* head, trove, price: the read was made;
                        \* rawTrove, rawPrice: what the reads returned;
                        \* zeroDebt: the trove read has no debt;
                        \* priceFailed: the price read raised;
                        \* basisTrove, basisPrice: lowest_cr_trove was
                        \* assigned from the trove, the price read;
                        \* sends: calls of send_raw_transaction

vars ==
    <<pc, first_trove, lowest_cr_trove, tx_hash, address, coll, debt, price,
      nonce, txn, exc, lastLog, sent, seen>>

mainLocals == <<first_trove, lowest_cr_trove, tx_hash>>

gtdLocals == <<coll, debt, price>>

liqLocals == <<nonce, txn>>

Init ==
    /\ pc = "poll"
    /\ first_trove = "None"
    /\ lowest_cr_trove = NoTrove
    /\ tx_hash = 0
    /\ address = "None"
    /\ coll = NoFloat
    /\ debt = NoFloat
    /\ price = 0
    /\ nonce = 0
    /\ txn = NoTxn
    /\ exc = "None"
    /\ lastLog = [msg |-> "starting", tx |-> 0]
    /\ sent = <<>>
    /\ seen = NothingSeen

(***************************************************************************)
(* Helpers of the loop.                                                    *)
(***************************************************************************)
\* the literal 1e18 of lines 42-43
WeiPerEth == FloatOfInt(Big(<<1, 0, 0, 0, 0, 0, 0>>))

\* the literal 1.1 of line 83
Threshold == RoundRat(Big(<<11>>), Big(<<10>>))

\* the Python number json() yields for a price given in hundredths, as the
\* float the multiplication of line 47 uses
PriceAsFloat(c) ==
    IF c % 100 = 0
    THEN FloatOfInt(Big(<<c \div 100000, (c \div 100) % 1000>>))
    ELSE RoundRat(Big(<<c \div 1000000, (c \div 1000) % 1000, c % 1000>>),
                  Big(<<100>>))

\* trove[k] / 1e18
FromWei(w) == FDiv(FloatOfInt(w), WeiPerEth)

\* a guard that lets a debt of zero through: if debt >= 0:
DebtNotNegative(d) == ~FLt(d, FZero)

\* if debt > 0:
DebtPositive(d) == FLt(FZero, d)

\* (coll * price) / debt
CollateralRatio(c, p, d) == FDiv(FMul(c, PriceAsFloat(p)), d)

\* lowest_cr_trove['collateral_ratio'] < 1.1
BelowThreshold(r) == FLt(r, Threshold)

\* a handler for the connection errors only: except ConnectionError as e:
CaughtConnectionError(kind) == kind = "ConnectionError"

\* except Exception as e:
Caught(kind) == kind \in ExceptionClasses

\* a call that batches every known trove with the one asked for
LiquidateEveryTrove(a) == <<a>> \o <<CHOOSE b \in Addresses : b # a>>

\* the argument list of liquidateTroves
LiquidateTrovesArgs(a) == <<a>>

\* w3.eth.get_transaction_count(YOUR_ADDRESS): the transactions of the
\* account in the latest block
TransactionCount ==
    Cardinality({i \in 1..Len(sent) : sent[i].status \in {"Success", "Reverted"}})

\* the node takes a transaction whose nonce is the account's next one; one
\* that shares its nonce with a pending transaction must raise the gas
\* price by a tenth
NodeAccepts(t) ==
    /\ t.nonce = TransactionCount
    /\ \A i \in 1..Len(sent) :
          (sent[i].status = "Pending" /\ sent[i].nonce = t.nonce)
              => t.gasPrice * 10 >= sent[i].gasPrice * 11

\* the record of txn in the send path, with the data the cycle acted on:
\* the head of the list it holds, and whether the head, the trove and the
\* price behind lowest_cr_trove were read in this cycle
Submission(status) ==
    [addrs |-> txn.addrs, nonce |-> txn.nonce, gasPrice |-> txn.gasPrice,
     status |-> status, timedOut |-> FALSE, head |-> first_trove,
     headFresh |-> seen.head, troveFresh |-> seen.basisTrove,
     priceFresh |-> seen.basisPrice]

Raise(kind) ==
    /\ exc' = kind
    /\ pc' = IF Caught(kind) THEN "handler" ELSE "terminated"

\* the locals of get_trove_details and liquidate_trove end with the call
DropLocals ==
    /\ address' = "None"
    /\ coll' = NoFloat
    /\ debt' = NoFloat
    /\ price' = 0
    /\ nonce' = 0
    /\ txn' = NoTxn

(***************************************************************************)
(* main(), lines 75-78: first_trove = getFirstTroveInSortedList().call()   *)
(***************************************************************************)
HeadReturns(a) ==
    /\ first_trove' = a
    /\ address' = a
    /\ seen' = [seen EXCEPT !.head = TRUE]
    /\ pc' = "read_trove"
    /\ exc' = exc

HeadFails(k) ==
    /\ Raise(k)
    /\ UNCHANGED <<first_trove, address, seen>>

GetFirstTrove ==
    /\ pc = "poll"
    /\ Len(sent) < MaxSent
    /\ \/ \E a \in Addresses : HeadReturns(a)
       \/ \E k \in ChainErrors : HeadFails(k)
    /\ UNCHANGED <<lowest_cr_trove, tx_hash, gtdLocals, liqLocals, lastLog, sent>>

(***************************************************************************)
(* get_trove_details, lines 41-45 and 54                                   *)
(***************************************************************************)
TroveReturns(t) ==
    LET c == FromWei(t.coll)
        d == FromWei(t.debt)
    IN  /\ exc' = exc
        /\ IF DebtPositive(d)
           THEN /\ coll' = c
                /\ debt' = d
                /\ pc' = "read_price"
                /\ seen' = [seen EXCEPT !.trove = TRUE, !.rawTrove = t,
                                        !.zeroDebt = (t.debt = <<>>)]
                /\ UNCHANGED <<lowest_cr_trove, address, price, liqLocals>>
           ELSE /\ lowest_cr_trove' = NoTrove
                /\ seen' = [seen EXCEPT !.trove = TRUE, !.rawTrove = t,
                                        !.basisTrove = TRUE,
                                        !.zeroDebt = (t.debt = <<>>)]
                /\ pc' = "check"
                /\ DropLocals

\* a get_trove_details that swallows the error, so that main goes on with
\* the lowest_cr_trove it holds
TroveFailsSilently(k) ==
    /\ pc' = "check"
    /\ exc' = exc
    /\ DropLocals
    /\ UNCHANGED <<lowest_cr_trove, seen>>

TroveFails(k) ==
    /\ Raise(k)
    /\ DropLocals
    /\ UNCHANGED <<lowest_cr_trove, seen>>

ReadTroveFrom(data) ==
    /\ pc = "read_trove"
    /\ \/ \E t \in data : TroveReturns(t)
       \/ \E k \in ChainErrors : TroveFails(k)
    /\ UNCHANGED <<first_trove, tx_hash, lastLog, sent>>

ReadTrove == ReadTroveFrom(TroveData)

(***************************************************************************)
(* get_eth_price, lines 35-38, called at line 46                           *)
(***************************************************************************)
PriceReturns(p) ==
    /\ price' = p
    /\ seen' = [seen EXCEPT !.price = TRUE, !.rawPrice = p]
    /\ pc' = "compute"
    /\ UNCHANGED <<exc, address, coll, debt, liqLocals>>

\* a get_eth_price that answers 0 when the provider fails
PriceFailsAsZero(k) ==
    /\ price' = 0
    /\ seen' = [seen EXCEPT !.priceFailed = TRUE]
    /\ pc' = "compute"
    /\ UNCHANGED <<exc, address, coll, debt, liqLocals>>

PriceFails(k) ==
    /\ Raise(k)
    /\ seen' = [seen EXCEPT !.priceFailed = TRUE]
    /\ DropLocals

GetEthPriceFrom(data) ==
    /\ pc = "read_price"
    /\ \/ \E p \in data : PriceReturns(p)
       \/ \E k \in PriceErrors : PriceFails(k)
    /\ UNCHANGED <<mainLocals, lastLog, sent>>

GetEthPrice == GetEthPriceFrom(Prices)

(***************************************************************************)
(* get_trove_details, lines 47-53                                          *)
(***************************************************************************)
ComputeRatio ==
    /\ pc = "compute"
    /\ IF FIsZero(debt)
       THEN /\ Raise("ZeroDivisionError")
            /\ UNCHANGED <<lowest_cr_trove, seen>>
       ELSE /\ lowest_cr_trove' =
                   [address |-> address, collateral |-> coll, debt |-> debt,
                    collateral_ratio |-> CollateralRatio(coll, price, debt)]
            /\ seen' = [seen EXCEPT !.basisTrove = seen.trove,
                                    !.basisPrice = seen.price]
            /\ pc' = "check"
            /\ exc' = exc
    /\ DropLocals
    /\ UNCHANGED <<first_trove, tx_hash, lastLog, sent>>

(***************************************************************************)
(* main(), lines 80-93                                                     *)
(***************************************************************************)
CheckThreshold ==
    /\ pc = "check"
    /\ IF lowest_cr_trove # NoTrove
       THEN IF BelowThreshold(lowest_cr_trove.collateral_ratio)
            THEN /\ lastLog' = [msg |-> "attempting", tx |-> 0]
                 /\ address' = lowest_cr_trove.address
                 /\ pc' = "get_nonce"
            ELSE /\ lastLog' = [msg |-> "above", tx |-> 0]
                 /\ pc' = "sleep15"
                 /\ UNCHANGED address
       ELSE /\ lastLog' = [msg |-> "no_valid", tx |-> 0]
            /\ pc' = "sleep15"
            /\ UNCHANGED address
    /\ UNCHANGED <<mainLocals, gtdLocals, liqLocals, exc, sent, seen>>

(***************************************************************************)
(* liquidate_trove, line 57                                                *)
(***************************************************************************)
GetTransactionCount ==
    /\ pc = "get_nonce"
    /\ \/ /\ nonce' = TransactionCount
          /\ pc' = "build"
          /\ UNCHANGED <<exc, address, gtdLocals, txn>>
       \/ \E k \in ChainErrors :
            /\ Raise(k)
            /\ DropLocals
    /\ UNCHANGED <<mainLocals, lastLog, sent, seen>>

(***************************************************************************)
(* liquidate_trove, lines 59-64                                            *)
(***************************************************************************)
BuildTransaction ==
    /\ pc = "build"
    /\ \/ \E g \in GasPrices :
            /\ txn' = [addrs |-> LiquidateTrovesArgs(address), nonce |-> nonce,
                       gasPrice |-> g]
            /\ pc' = "send"
            /\ UNCHANGED <<exc, address, gtdLocals, nonce>>
       \/ \E k \in ChainErrors :
            /\ Raise(k)
            /\ DropLocals
    /\ UNCHANGED <<mainLocals, lastLog, sent, seen>>

(***************************************************************************)
(* liquidate_trove, lines 66-70                                            *)
(***************************************************************************)
\* the node takes the transaction and answers with its hash
SendAccepted ==
    /\ NodeAccepts(txn)
    /\ sent' = Append(sent, Submission("Pending"))
    /\ tx_hash' = Len(sent) + 1
    /\ lastLog' = [msg |-> "sent", tx |-> Len(sent) + 1]
    /\ pc' = "wait"
    /\ exc' = exc

\* the node answers with an error (nonce too low, already known, underpriced)
SendRefused ==
    /\ ~NodeAccepts(txn)
    /\ sent' = Append(sent, Submission("Refused"))
    /\ Raise("ValueError")
    /\ UNCHANGED <<tx_hash, lastLog>>

\* the node takes the transaction and its answer is lost
SendAnswerLost ==
    /\ NodeAccepts(txn)
    /\ sent' = Append(sent, Submission("Pending"))
    /\ Raise("ConnectionError")
    /\ UNCHANGED <<tx_hash, lastLog>>

\* the request never reaches the node
SendUnreachable ==
    /\ sent' = Append(sent, Submission("Lost"))
    /\ Raise("ConnectionError")
    /\ UNCHANGED <<tx_hash, lastLog>>

SendRawTransaction ==
    /\ pc = "send"
    /\ \/ SendAccepted
       \/ SendRefused
       \/ SendAnswerLost
       \/ SendUnreachable
    /\ seen' = [seen EXCEPT !.sends = @ + 1]
    /\ DropLocals
    /\ UNCHANGED <<first_trove, lowest_cr_trove>>

(***************************************************************************)
(* main(), lines 88-89: wait_for_transaction_receipt(tx_hash)              *)
(***************************************************************************)
\* a receipt exists: whatever its status, line 89 logs the liquidation
ReceiptReturned ==
    /\ sent[tx_hash].status \in {"Success", "Reverted"}
    /\ lastLog' = [msg |-> "complete", tx |-> tx_hash]
    /\ pc' = "sleep15"
    /\ UNCHANGED <<exc, sent>>

\* a wait without a timeout (timeout=None) never gives up
WaitWithoutTimeout == FALSE

\* no receipt within the default timeout of 120 seconds
WaitTimesOut ==
    /\ sent[tx_hash].status \in {"Pending", "Dropped"}
    /\ Raise("TimeExhausted")
    /\ sent' = [sent EXCEPT ![tx_hash].timedOut = TRUE]
    /\ UNCHANGED lastLog

\* the wait ends by itself: with the receipt, or with the timeout
AwaitOutcome ==
    /\ pc = "wait"
    /\ \/ ReceiptReturned
       \/ WaitTimesOut
    /\ UNCHANGED <<mainLocals, address, gtdLocals, liqLocals, seen>>

\* a poll for the receipt fails
WaitFails ==
    /\ pc = "wait"
    /\ \E k \in ChainErrors : Raise(k)
    /\ UNCHANGED <<mainLocals, address, gtdLocals, liqLocals, lastLog, sent,
                   seen>>

WaitForReceipt == AwaitOutcome \/ WaitFails

(***************************************************************************)
(* main(), line 96: time.sleep(15)                                         *)
(***************************************************************************)
Sleep15 ==
    /\ pc = "sleep15"
    /\ pc' = "poll"
    /\ seen' = NothingSeen
    /\ UNCHANGED <<mainLocals, address, gtdLocals, liqLocals, exc, lastLog,
                   sent>>

(***************************************************************************)
(* main(), lines 98-100: the handler logs, sleeps and the loop goes on     *)
(***************************************************************************)
LogError ==
    /\ pc = "handler"
    /\ lastLog' = [msg |-> "error", tx |-> 0]
    /\ pc' = "sleep5"
    /\ UNCHANGED <<mainLocals, address, gtdLocals, liqLocals, exc, sent, seen>>

Sleep5 ==
    /\ pc = "sleep5"
    /\ pc' = "poll"
    /\ exc' = "None"
    /\ seen' = NothingSeen
    /\ UNCHANGED <<mainLocals, address, gtdLocals, liqLocals, lastLog, sent>>

(***************************************************************************)
(* The chain: a pending transaction whose nonce is the account's next one  *)
(* is included in a block, and succeeds or reverts; the pending            *)
(* transactions that share its nonce can no longer be included.            *)
(***************************************************************************)
Mine ==
    /\ \E i \in 1..Len(sent) : \E outcome \in {"Success", "Reverted"} :
          /\ sent[i].status = "Pending"
          /\ sent[i].nonce = TransactionCount
          /\ sent' = [j \in 1..Len(sent) |->
                        IF j = i THEN [sent[j] EXCEPT !.status = outcome]
                        ELSE IF sent[j].status = "Pending"
                                /\ sent[j].nonce = sent[i].nonce
                        THEN [sent[j] EXCEPT !.status = "Dropped"]
                        ELSE sent[j]]
    /\ UNCHANGED <<pc, mainLocals, address, gtdLocals, liqLocals, exc, lastLog,
                   seen>>

(***************************************************************************)
(* The chain while get_trove_details is between its two reads: Troves() at *)
(* line 41 has answered, the request of get_eth_price (line 46) has not.   *)
(* A block that holds no transaction of the bot is appended;               *)
(* seen.blocksApart counts these blocks, so the reads of the evaluation    *)
(* are at least that many block intervals apart.                           *)
(***************************************************************************)
NewBlock ==
    /\ pc = "read_price"
    /\ seen.blocksApart < MaxBlocksApart
    /\ seen' = [seen EXCEPT !.blocksApart = @ + 1]
    /\ UNCHANGED <<pc, mainLocals, address, gtdLocals, liqLocals, exc, lastLog,
                   sent>>

Bot ==
    \/ GetFirstTrove
    \/ ReadTrove
    \/ GetEthPrice
    \/ ComputeRatio
    \/ CheckThreshold
    \/ GetTransactionCount
    \/ BuildTransaction
    \/ SendRawTransaction
    \/ WaitForReceipt
    \/ Sleep15
    \/ LogError
    \/ Sleep5

Next == Bot \/ Mine \/ NewBlock

Spec == Init /\ [][Next]_vars


(***************************************************************************)
(* The loop under the scheduling the interpreter gives it: a wait for the  *)
(* receipt ends within its timeout, a sleep ends, the handler logs.  The   *)
(* chain and the provider owe the loop nothing.                            *)
(***************************************************************************)
FairSpec ==
    /\ Spec
    /\ WF_vars(AwaitOutcome)
    /\ WF_vars(Sleep15)
    /\ WF_vars(LogError)
    /\ WF_vars(Sleep5)

(***************************************************************************)
(* The health evaluation alone: one call of get_trove_details and the test *)
(* of lines 80-83 on what it returns, over HealthTroveData and             *)
(* HealthPrices.                                                           *)
(***************************************************************************)
HealthInit ==
    /\ pc = "read_trove"
    /\ first_trove \in Addresses
    /\ address = first_trove
    /\ lowest_cr_trove = NoTrove
    /\ tx_hash = 0
    /\ coll = NoFloat
    /\ debt = NoFloat
    /\ price = 0
    /\ nonce = 0
    /\ txn = NoTxn
    /\ exc = "None"
    /\ lastLog = [msg |-> "starting", tx |-> 0]
    /\ sent = <<>>
    /\ seen = [NothingSeen EXCEPT !.head = TRUE]

HealthNext ==
    \/ ReadTroveFrom(HealthTroveData)
    \/ GetEthPriceFrom(HealthPrices)
    \/ ComputeRatio
    \/ CheckThreshold

HealthSpec == HealthInit /\ [][HealthNext]_vars


(***************************************************************************)
(* The claims.                                                             *)
(***************************************************************************)
\* the transactions naming position a whose outcome is not known yet
PendingFor(a) ==
    {i \in 1..Len(sent) :
        /\ sent[i].status = "Pending"
        /\ \E k \in 1..Len(sent[i].addrs) : sent[i].addrs[k] = a}

\* C1: for every position id at most one liquidation transaction has been
\* sent and is still pending.  The loop keeps no record of what it sent: after
\* a timeout the next cycle sends again for the same head of the list.
C1_OnePendingPerPosition ==
    \A a \in Addresses : Cardinality(PendingFor(a)) <= 1

\* C2: while a transaction whose wait timed out is unresolved (still
\* pending), no step sends a transaction for the same position or with the
\* same nonce.
C2_NoResendAfterTimeout ==
    [][\A i \in 1..Len(sent) :
          (sent[i].timedOut /\ sent[i].status = "Pending" /\ Len(sent') > Len(sent))
              => /\ sent'[Len(sent')].addrs # sent[i].addrs
                 /\ sent'[Len(sent')].nonce # sent[i].nonce]_vars

\* C3: a transaction whose receipt says it reverted is never logged as a
\* complete liquidation: "Liquidation complete" is logged for successful
\* transactions only.
C3_RevertNotReportedComplete ==
    lastLog.msg = "complete" => sent[lastLog.tx].status = "Success"

\* collateral * price / debt < 11 / 10 over the rationals, for a price in
\* hundredths: collateral * price * 10 < debt * 1100
ExactlyBelowThreshold(t, p) ==
    Cmp(Mul(Mul(t.coll, Big(<<p \div 1000, p % 1000>>)), Big(<<10>>)),
        Mul(t.debt, Big(<<1, 100>>))) < 0

\* the test of lines 80-93 was made on a trove with a debt and a price
Decided ==
    /\ pc \in {"get_nonce", "sleep15"}
    /\ seen.trove /\ seen.price /\ seen.sends = 0

\* C4: with debt > 0 a liquidation is attempted exactly when
\* collateral * price / debt is strictly below 1.1.
C4_AttemptedIffBelowThreshold ==
    Decided =>
        ((pc = "get_nonce") <=> ExactlyBelowThreshold(seen.rawTrove, seen.rawPrice))

\* C5: a cycle that read a trove without debt evaluates nothing further: the
\* result is None, the price is not read, no transaction is sent, and no
\* division by zero is raised.
C5_ZeroDebtNeverEligible ==
    /\ exc # "ZeroDivisionError"
    /\ seen.zeroDebt =>
          /\ pc \in {"check", "sleep15"}
          /\ lowest_cr_trove = NoTrove
          /\ ~seen.price
          /\ seen.sends = 0

C5_Witness ==
    /\ seen.zeroDebt
    /\ seen.rawTrove.coll # <<>>
    /\ pc = "sleep15"
    /\ lastLog.msg = "no_valid"

\* C6: an exception raised in a cycle never ends the loop: it is caught,
\* the handler logs it, and after the sleep of line 100 the loop polls again.
C6_ErrorsCaughtLoggedRetried ==
    [][/\ pc' # "terminated"
       /\ (exc = "None" /\ exc' # "None") => pc' = "handler"
       /\ (pc = "handler" /\ pc' # pc) => (pc' = "sleep5" /\ lastLog'.msg = "error")
       /\ (pc = "sleep5" /\ pc' # pc) => (pc' = "poll" /\ exc' = "None")]_vars

\* a malformed answer of the price provider was logged and the loop is in
\* its backoff
C6_Witness ==
    /\ pc = "sleep5"
    /\ exc = "KeyError"
    /\ lastLog.msg = "error"

\* C7: a cycle whose price read failed makes no evaluation: no price is
\* taken, lowest_cr_trove is not assigned, nothing is sent; the error is
\* logged and the loop sleeps before the next poll.
C7_PriceFailureAbandonsEvaluation ==
    seen.priceFailed =>
        /\ pc \in {"handler", "sleep5"}
        /\ exc \in PriceErrors
        /\ ~seen.price /\ price = 0
        /\ ~seen.basisTrove /\ ~seen.basisPrice
        /\ seen.sends = 0
        /\ pc = "sleep5" => lastLog.msg = "error"

C7_Witness ==
    /\ seen.priceFailed
    /\ seen.trove
    /\ pc = "sleep5"
    /\ lastLog.msg = "error"

\* C8: one call of liquidate_trove hands at most one transaction to
\* send_raw_transaction, exactly one when it returns, and that transaction
\* names the address of the call and no other.
C8_OneTransactionPerCall ==
    /\ seen.sends <= 1
    /\ pc = "wait" =>
          /\ seen.sends = 1
          /\ tx_hash = Len(sent)
          /\ sent[tx_hash].addrs = <<lowest_cr_trove.address>>
    /\ \A i \in 1..Len(sent) : Len(sent[i].addrs) = 1

C8_Witness ==
    /\ pc = "wait"
    /\ seen.sends = 1
    /\ sent[tx_hash].addrs = <<first_trove>>

\* C9: whenever the loop waits for a receipt it later polls the head of the
\* list again, whatever becomes of the transaction.
C9_ExecutingLeadsToScanning == (pc = "wait") ~> (pc = "poll")

\* back at the poll after a wait that timed out
C9_Witness ==
    /\ pc = "poll"
    /\ tx_hash > 0
    /\ sent[tx_hash].timedOut
    /\ sent[tx_hash].status = "Pending"

\* C10: every transaction sent names the head of the list read in the cycle
\* that sent it, on a lowest_cr_trove assigned in that cycle from a trove and
\* a price read in that cycle; and inside liquidate_trove the ratio held is
\* the one of that trove and that price.
C10_SentOnDataOfTheCycle ==
    /\ \A i \in 1..Len(sent) :
          /\ sent[i].headFresh /\ sent[i].troveFresh /\ sent[i].priceFresh
          /\ sent[i].addrs[1] = sent[i].head
    /\ pc \in {"get_nonce", "build", "send"} =>
          /\ seen.head /\ seen.trove /\ seen.price
          /\ address = first_trove
          /\ lowest_cr_trove.collateral_ratio =
                CollateralRatio(FromWei(seen.rawTrove.coll), seen.rawPrice,
                                FromWei(seen.rawTrove.debt))

\* a second transaction was sent, in a later cycle than the first
C10_Witness ==
    /\ Len(sent) = 2
    /\ sent[2].headFresh /\ sent[2].troveFresh /\ sent[2].priceFresh

\* C11: an evaluation whose trove read and price read are more than one
\* block interval apart is discarded: lowest_cr_trove is not assigned from
\* it, no test against the threshold is made on it, and the cycle sends no
\* transaction.
C11_StaleEvaluationDiscarded ==
    seen.blocksApart > 1 =>
        /\ ~seen.basisPrice
        /\ pc \notin {"check", "get_nonce", "build", "send", "wait"}
        /\ seen.sends = 0

=============================================================================
